---- MODULE Spec2Model ----
(***************************************************************************)
(* A model of pluvo-python (src/pluvo/pluvo.py): the PluvoResultSet, a     *)
(* lazily fetched, cached, indexable view over a server-paginated          *)
(* collection, together with the server it talks to through                *)
(* Pluvo._request.                                                         *)
(*                                                                         *)
(* One PluvoResultSet object is modelled.  Its fields are `count' (_count) *)
(* and `pages'.  Every public operation is one action; it runs the whole   *)
(* handler, every _get_page call included.  The variables op, args, err,   *)
(* ret and calls describe the last operation as its caller and the         *)
(* transport saw it.                                                       *)
(***************************************************************************)
EXTENDS Integers, Sequences, FiniteSets, TLC

\* ------------------------------------------------------------------ bounds

\* The server holds 0..MaxTotal items.
MaxTotal == 4
\* Pluvo.page_size ranges over 1..MaxPageSize.
MaxPageSize == 2
\* The server's items fill at most MaxPages pages.
MaxPages == 2
\* Keys and slice bounds range over -(total + MaxOver) .. total + MaxOver.
MaxOver == 1
\* The transport call of an operation that raises: none (0), or the n-th,
\* n <= MaxFail.
MaxFail == 2
\* The lifetime count of successful transport calls per page saturates here.
CallCap == 2
\* The threads that share one result set.
NumThreads == 2
\* The tasks that share one ShampooClient, the calls a client makes, and the
\* push messages a call skips.
NumTasks == 2
MaxCalls == 2
MaxPush == 1

\* ------------------------------------------------------------------- state

VARIABLES
    page_size,  \* Pluvo.page_size
    total,      \* the number of items the server holds
    negMode,    \* what the server does with a negative offset
    drift,      \* whether the server's reported count may change
    malformed,  \* whether a response may lack its 'count' field
    token,      \* Pluvo.token (None with client_id/client_secret credentials)
    method,     \* PluvoResultSet.method
    endpoint,   \* PluvoResultSet.endpoint
    params,     \* PluvoResultSet.params: the parameters the caller gave
    count,      \* PluvoResultSet._count
    pages,      \* PluvoResultSet.pages: page index -> sequence of items
    fetched,    \* page index -> successful transport calls over the lifetime
    op,         \* the last operation
    args,       \* its arguments
    err,        \* how it ended: "none", "index", "transport", "stop", "key"
                \* (KeyError: 'count') or "type" (len() of a None count)
    ret,        \* what it returned (a single value as a one-element sequence)
    calls,      \* the transport calls it issued, in order
    consumed,   \* items taken from the iterator __iter__ returned
    threads,    \* per thread inside _get_page: its position, index, response
    shampoo,    \* ShampooClient: _ws, _request_id, and its connections
    tasks       \* per task inside ShampooClient.call: its position and result

vars == <<page_size, total, negMode, drift, malformed, token, method,
          endpoint, params,
          count, pages, fetched, op, args, err, ret, calls, consumed,
          threads, shampoo, tasks>>

\* `self._count = None'
None == -1

\* The count of a response body that has no 'count' key.
Missing == -2

\* An empty mapping (`self.pages = {}').
EmptyMap == [k \in {} |-> 0]

Min(a, b) == IF a < b THEN a ELSE b

\* ------------------------------------------------------------ the server

\* The item at absolute position p (0-based) of the server's collection.
Item(p) == p + 1

\* The items at positions lo .. hi-1.
Items(lo, hi) == [i \in 1..(hi - lo) |-> Item(lo + i - 1)]

\* resp['data'] for a request with this offset and limit: the items at
\* [offset, offset + limit) of the collection.  A negative offset is outside
\* the API's contract: the server answers with an empty page ("empty"), or
\* treats it as 0 ("clamp"); under "error" the request fails (see Fails).
ServerData(offset, limit) ==
    IF offset < 0 /\ negMode = "empty" THEN << >>
    ELSE LET lo == IF offset < 0 THEN 0 ELSE offset
             hi == Min(lo + limit, total)
         IN  IF hi > lo THEN Items(lo, hi) ELSE << >>

\* --------------------------------------------------- running an operation

\* An operation threads a record st through its calls:
\*   pages, count, fetched: the object's fields (and the lifetime history),
\*   calls: the transport calls issued so far by this operation,
\*   err:   "none" while running; an exception, once raised, propagates:
\*          every later call of the operation is skipped.
\* An operation's environment env says what the outside does during it:
\*   failAt: the transport call of this operation that raises (0: none),
\*   cnt:    the count the server reports in its responses.

Raise(st, e) == [st EXCEPT !.err = e]

\* The token of a client that authenticates with a token, and a value of
\* the `name' filter of a list call.
Token == 9
AName == 7

\* Pluvo._set_auth_headers: the names of the headers of a request.
set_auth_headers ==
    IF token = None THEN {"client_id", "client_secret"} ELSE {}

\* Pluvo._set_auth_params: prm is << >> for `params=None' and << d >> for a
\* dict d, which gets the token written into it.
set_auth_params(prm) ==
    LET d == IF prm = << >> THEN EmptyMap ELSE prm[1]
    IN  IF token # None THEN ("token" :> token) @@ d ELSE d

\* Pluvo._request up to session.request: what goes to the server.  data and
\* prm are << >> for None.
request(verb, url, data, prm) ==
    [verb |-> verb, endpoint |-> url, query |-> set_auth_params(prm),
     body |-> data, headers |-> set_auth_headers]

\* A _get_page that sends its parameters in the query string whatever the
\* method.
page_request_as_query(p) == request(method, endpoint, << >>, << p >>)

\* The request _get_page makes for the parameters p.
page_request(p) ==
    IF method = "POST"
    THEN request("POST", endpoint, << p >>, << >>)
    ELSE request("GET", endpoint, << >>, << p >>)

\* The record of a transport call in the log of an operation.
Call(p, ok, cnt) ==
    [offset |-> p.offset, limit |-> p.limit, ok |-> ok, count |-> cnt,
     req |-> page_request(p)]

\* The request parameters with a limit one above the page size.
RequestParams_wide(st, index) ==
    ("offset" :> index * page_size) @@ ("limit" :> page_size + 1) @@ st.params

\* dict(self.params, offset=index * page_size, limit=page_size)
RequestParams(st, index) ==
    ("offset" :> index * page_size) @@ ("limit" :> page_size) @@ st.params

\* Whether Pluvo._request raises for the n-th transport call of the
\* operation, sent with these parameters.
Fails(n, p, env) ==
    \/ n = env.failAt
    \/ p.offset < 0 /\ negMode = "error"

\* Pluvo._request as the result set uses it: the response body
\* {'count': ..., 'data': [...]}.
Response(p, env) == [count |-> env.cnt, data |-> ServerData(p.offset, p.limit)]

Bump(f, k) == IF k \in DOMAIN f
              THEN [f EXCEPT ![k] = Min(@ + 1, CallCap)]
              ELSE (k :> 1) @@ f

\* _get_page's lines after the request, with the count overwritten by every
\* response.
store_response_recount(st, index, p, resp) ==
    [st EXCEPT
       !.pages = (index :> resp.data) @@ @,
       !.count = resp.count,
       !.fetched = Bump(@, index),
       !.calls = Append(@, Call(p, TRUE, resp.count))]

\* _get_page's lines after the request: the page is stored, and then the
\* count too when it is still unknown, which raises KeyError for a response
\* without 'count'.  (The transport call is logged here.)
store_response(st, index, p, resp) ==
    LET s == [st EXCEPT
                !.pages = (index :> resp.data) @@ @,
                !.fetched = Bump(@, index),
                !.calls = Append(@, Call(p, TRUE, resp.count))]
    IN  IF st.count # None THEN s
        ELSE IF resp.count = Missing THEN Raise(s, "key")
        ELSE [s EXCEPT !.count = resp.count]

\* _get_page without its `if index not in self.pages' test: every call goes
\* to the transport.
get_page_uncached(st, index, env) ==
    IF st.err # "none" THEN st
    ELSE LET p == RequestParams(st, index)
             n == Len(st.calls) + 1
         IN  IF Fails(n, p, env)
             THEN [st EXCEPT !.err = "transport",
                             !.calls = Append(@, Call(p, FALSE, None))]
             ELSE store_response(st, index, p, Response(p, env))

\* A _get_page that asks the transport a second time when the first
\* request raises.
get_page_retry(st, index, env) ==
    IF st.err # "none" THEN st
    ELSE IF index \in DOMAIN st.pages THEN st
    ELSE LET p == RequestParams(st, index)
             n == Len(st.calls) + 1
         IN  IF Fails(n, p, env)
             THEN store_response(
                      [st EXCEPT !.calls = Append(@, Call(p, FALSE, None))],
                      index, p, Response(p, env))
             ELSE store_response(st, index, p, Response(p, env))

\* A _get_page that writes offset and limit into self.params itself instead
\* of into a copy.
get_page_inplace(st, index, env) ==
    IF st.err # "none" THEN st
    ELSE IF index \in DOMAIN st.pages THEN st
    ELSE LET p == RequestParams(st, index)
             n == Len(st.calls) + 1
             s == [st EXCEPT !.params = p]
         IN  IF Fails(n, p, env)
             THEN [s EXCEPT !.err = "transport",
                            !.calls = Append(@, Call(p, FALSE, None))]
             ELSE store_response(s, index, p, Response(p, env))

\* A _get_page that caches an empty page when the request raises.
get_page_poison(st, index, env) ==
    IF st.err # "none" THEN st
    ELSE IF index \in DOMAIN st.pages THEN st
    ELSE LET p == RequestParams(st, index)
             n == Len(st.calls) + 1
         IN  IF Fails(n, p, env)
             THEN [st EXCEPT !.err = "transport",
                             !.pages = (index :> << >>) @@ @,
                             !.calls = Append(@, Call(p, FALSE, None))]
             ELSE store_response(st, index, p, Response(p, env))

\* PluvoResultSet._get_page: the state after the call; on success the page
\* returned is st.pages[index] of the result.
get_page(st, index, env) ==
    IF st.err # "none" THEN st
    ELSE IF index \in DOMAIN st.pages THEN st
    ELSE LET p == RequestParams(st, index)
             n == Len(st.calls) + 1
         IN  IF Fails(n, p, env)
             THEN [st EXCEPT !.err = "transport",
                             !.calls = Append(@, Call(p, FALSE, None))]
             ELSE store_response(st, index, p, Response(p, env))

\* _get_page_key_offset with the offset counted from 1.
get_page_key_offset_from_one(key) ==
    [key |-> key \div page_size, offset |-> (key + 1) % page_size]

\* PluvoResultSet._get_page_key_offset (Python's // and % round down, as
\* \div and % do).
get_page_key_offset(key) ==
    [key |-> key \div page_size, offset |-> key % page_size]

\* __len__ learning the count from the next page instead of page 0.
len_from_next_page(st, env) ==
    IF st.count = None THEN get_page(st, 1, env) ELSE st

\* PluvoResultSet.__len__: the state after the call; it returns st.count of
\* the result, and len() raises TypeError when that is still None.
len(st, env) ==
    IF st.count # None THEN st
    ELSE LET s == get_page(st, 0, env)
         IN  IF s.err = "none" /\ s.count = None THEN Raise(s, "type") ELSE s

\* canonicalize taking -1 for the position after the last item
\* (`key = len(self) + key + 1').
canonicalize_past_end(st, key, env) ==
    IF key < 0
    THEN LET s == len(st, env) IN [st |-> s, key |-> s.count + key + 1]
    ELSE [st |-> st, key |-> key]

\* canonicalize, inside __getitem__: the state after the call and the key.
canonicalize(st, key, env) ==
    IF key < 0
    THEN LET s == len(st, env) IN [st |-> s, key |-> s.count + key]
    ELSE [st |-> st, key |-> key]

\* Python's list[lo:hi] for 0 <= lo, 0 <= hi.
PySlice(s, lo, hi) ==
    LET h == Min(hi, Len(s))
    IN  IF lo < h THEN SubSeq(s, lo + 1, h) ELSE << >>

\* The state after _get_page(lo), _get_page(lo + 1), ..., _get_page(hi - 1).
RECURSIVE get_pages(_, _, _, _)
get_pages(st, lo, hi, env) ==
    IF lo >= hi THEN st
    ELSE get_pages(get_page(st, lo, env), lo + 1, hi, env)

\* The concatenation of the cached pages lo .. hi-1.
RECURSIVE Chain(_, _, _)
Chain(pgs, lo, hi) ==
    IF lo >= hi THEN << >> ELSE pgs[lo] \o Chain(pgs, lo + 1, hi)

\* What an operation hands back: the state and the returned value.
Done(st, r) == [st |-> st, ret |-> IF st.err = "none" THEN r ELSE << >>]

\* An indexing that reads the page of a non-negative key before it checks
\* the key against the length.
getitem_index_page_first(st, key, env) ==
    LET s0 == IF key >= 0 THEN get_page(st, key \div page_size, env) ELSE st
        s1 == len(s0, env)
    IN  IF s1.err # "none" THEN Done(s1, << >>)
        ELSE IF key >= s1.count THEN Done(Raise(s1, "index"), << >>)
        ELSE LET c  == canonicalize(s1, key, env)
                 ko == get_page_key_offset(c.key)
                 s2 == get_page(c.st, ko.key, env)
             IN  IF s2.err # "none" THEN Done(s2, << >>)
                 ELSE IF ko.offset < Len(s2.pages[ko.key])
                 THEN Done(s2, << s2.pages[ko.key][ko.offset + 1] >>)
                 ELSE Done(Raise(s2, "index"), << >>)

\* PluvoResultSet.__getitem__ with an integer key.
getitem_index(st, key, env) ==
    LET s1 == len(st, env)
    IN  IF s1.err # "none" THEN Done(s1, << >>)
        ELSE IF key >= s1.count THEN Done(Raise(s1, "index"), << >>)
        ELSE LET c  == canonicalize(s1, key, env)
                 ko == get_page_key_offset(c.key)
                 s2 == get_page(c.st, ko.key, env)
             IN  IF s2.err # "none" THEN Done(s2, << >>)
                 ELSE IF ko.offset < Len(s2.pages[ko.key])
                 THEN Done(s2, << s2.pages[ko.key][ko.offset + 1] >>)
                 ELSE Done(Raise(s2, "index"), << >>)

\* __getitem__ with a slice whose bounds a and b (page key and offset) fall
\* in one page: `self._get_page(start_key)[start_offset:stop_offset]'.
slice_single(st, a, b, env) ==
    LET s3 == get_page(st, a.key, env)
    IN  IF s3.err # "none" THEN Done(s3, << >>)
        ELSE Done(s3, PySlice(s3.pages[a.key], a.offset, b.offset))

\* The slice over several pages built on the cached list itself instead of
\* a copy of its tail (`result = self._get_page(start_key)'): extending the
\* result extends the cached start page.
slice_multi_extends_cache(st, a, b, env) ==
    LET s3 == get_page(st, a.key, env)
        s4 == get_pages(s3, a.key + 1, b.key, env)
        s5 == IF b.offset > 0 THEN get_page(s4, b.key, env) ELSE s4
    IN  IF s5.err # "none" THEN Done(s5, << >>)
        ELSE LET result == s5.pages[a.key]
                           \o Chain(s5.pages, a.key + 1, b.key)
                           \o (IF b.offset > 0
                               THEN PySlice(s5.pages[b.key], 0, b.offset)
                               ELSE << >>)
             IN  Done([s5 EXCEPT !.pages[a.key] = result], result)

\* The slice over several pages without the pages between the first and the
\* last.
slice_multi_no_middle(st, a, b, env) ==
    LET s3 == get_page(st, a.key, env)
        s5 == IF b.offset > 0 THEN get_page(s3, b.key, env) ELSE s3
    IN  IF s5.err # "none" THEN Done(s5, << >>)
        ELSE Done(s5,
               PySlice(s5.pages[a.key], a.offset, Len(s5.pages[a.key]))
               \o (IF b.offset > 0
                   THEN PySlice(s5.pages[b.key], 0, b.offset)
                   ELSE << >>))

\* __getitem__ with a slice whose bounds fall in different pages: the tail
\* of the start page, the pages between, and the head of the stop page when
\* stop_offset > 0.
slice_multi(st, a, b, env) ==
    LET s3 == get_page(st, a.key, env)
        s4 == get_pages(s3, a.key + 1, b.key, env)
        s5 == IF b.offset > 0 THEN get_page(s4, b.key, env) ELSE s4
    IN  IF s5.err # "none" THEN Done(s5, << >>)
        ELSE Done(s5,
               PySlice(s5.pages[a.key], a.offset, Len(s5.pages[a.key]))
               \o Chain(s5.pages, a.key + 1, b.key)
               \o (IF b.offset > 0
                   THEN PySlice(s5.pages[b.key], 0, b.offset)
                   ELSE << >>))

\* A slicing that does not compare the canonical bounds before decomposing
\* them.
getitem_slice_unordered(st, start, stop, env) ==
    LET c1 == canonicalize(st, IF start = << >> THEN 0 ELSE start[1], env)
        s1 == IF stop = << >> THEN len(c1.st, env) ELSE c1.st
        c2 == canonicalize(s1, IF stop = << >> THEN s1.count ELSE stop[1], env)
        a  == get_page_key_offset(c1.key)
        b  == get_page_key_offset(c2.key)
    IN  IF c2.st.err # "none" THEN Done(c2.st, << >>)
        ELSE IF a.key = b.key THEN slice_single(c2.st, a, b, env)
        ELSE slice_multi(c2.st, a, b, env)

\* A slicing that asks for the length before it looks at its bounds.
getitem_slice_measured(st, start, stop, env) ==
    LET s0 == len(st, env)
        c1 == canonicalize(s0, IF start = << >> THEN 0 ELSE start[1], env)
        s1 == IF stop = << >> THEN len(c1.st, env) ELSE c1.st
        c2 == canonicalize(s1, IF stop = << >> THEN s1.count ELSE stop[1], env)
        a  == get_page_key_offset(c1.key)
        b  == get_page_key_offset(c2.key)
    IN  IF c2.st.err # "none" THEN Done(c2.st, << >>)
        ELSE IF c1.key > c2.key THEN Done(c2.st, << >>)
        ELSE IF a.key = b.key THEN slice_single(c2.st, a, b, env)
        ELSE slice_multi(c2.st, a, b, env)

\* PluvoResultSet.__getitem__ with a slice key; an omitted bound is << >>,
\* a given one << v >>.
getitem_slice(st, start, stop, env) ==
    LET c1 == canonicalize(st, IF start = << >> THEN 0 ELSE start[1], env)
        s1 == IF stop = << >> THEN len(c1.st, env) ELSE c1.st
        c2 == canonicalize(s1, IF stop = << >> THEN s1.count ELSE stop[1], env)
        a  == get_page_key_offset(c1.key)
        b  == get_page_key_offset(c2.key)
    IN  IF c2.st.err # "none" THEN Done(c2.st, << >>)
        ELSE IF c1.key > c2.key THEN Done(c2.st, << >>)
        ELSE IF a.key = b.key THEN slice_single(c2.st, a, b, env)
        ELSE slice_multi(c2.st, a, b, env)

\* The number of pages rounded down.
NumPagesFloor(n) == n \div page_size

\* int(math.ceil(n / float(page_size)))
NumPages(n) == (n + page_size - 1) \div page_size

\* An iteration that walks the pages with a cache of its own.
iter_refetch(st, env) ==
    LET s1 == len([st EXCEPT !.pages = EmptyMap, !.count = None], env)
    IN  IF s1.err # "none" THEN Done(s1, << >>)
        ELSE LET s2 == get_pages(s1, 0, NumPages(s1.count), env)
             IN  IF s2.err # "none" THEN Done(s2, << >>)
                 ELSE Done(s2, Chain(s2.pages, 0, NumPages(s1.count)))

\* PluvoResultSet.__iter__: itertools.chain(*page_iters) unpacks the
\* generator when it is called, so every _get_page call runs inside
\* __iter__; the value returned is the chain over the pages' items.
iter(st, env) ==
    LET s1 == len(st, env)
    IN  IF s1.err # "none" THEN Done(s1, << >>)
        ELSE LET s2 == get_pages(s1, 0, NumPages(s1.count), env)
             IN  IF s2.err # "none" THEN Done(s2, << >>)
                 ELSE Done(s2, Chain(s2.pages, 0, NumPages(s1.count)))

\* ----------------------------------------------------------------- actions

\* The counts the server may report in a response.
Counts ==
    (IF drift THEN {total, total + 1} ELSE {total})
    \cup (IF malformed THEN {Missing} ELSE {})

Envs == [failAt : 0..MaxFail, cnt : Counts]

Keys == (0 - (total + MaxOver)) .. (total + MaxOver)

Bounds == {<< >>} \cup {<< k >> : k \in Keys}

\* The pages a caller may ask _get_page for.
PageKeys == 0 .. ((total + MaxOver) \div page_size)

\* The state an operation starts from.
Start == [pages |-> pages, count |-> count, fetched |-> fetched,
          params |-> params, calls |-> << >>, err |-> "none"]

\* An operation `name' with arguments a ran and handed back r.
Ran(name, a, r) ==
    /\ op = "idle"
    /\ count' = r.st.count
    /\ pages' = r.st.pages
    /\ fetched' = r.st.fetched
    /\ op' = name
    /\ args' = a
    /\ err' = r.st.err
    /\ ret' = r.ret
    /\ calls' = r.st.calls
    /\ consumed' = 0
    /\ params' = r.st.params
    /\ UNCHANGED <<page_size, total, negMode, drift, malformed, token, method,
                   endpoint, threads,
                   shampoo, tasks>>

\* ---------------------------------------------------------------- threads

\* Threads that call _get_page on the one result set.  A thread is "idle"
\* (outside _get_page), at "request" (it found its index absent from
\* self.pages and is inside self.pluvo._request) or at "store" (it holds the
\* response and has not yet assigned self.pages[index]).
Threads == 1..NumThreads

\* No response held.
NoResp == [count |-> None, data |-> << >>]

\* index and resp are local to a call of _get_page; raced is kept for the
\* life of the thread.
IdleThread == [pc |-> "idle", index |-> 0, resp |-> NoResp, raced |-> FALSE]

\* The pages the threads ask for: the first two.
ThreadKeys == {k \in PageKeys : k <= 1}

NoThreads == [t \in Threads |-> IdleThread]

\* ---------------------------------------------------------- ShampooClient

\* The tasks that call a ShampooClient.
Tasks == 1..NumTasks

\* A message before any was read.
NoMsg == [type |-> "none", request_id |-> None, status |-> None,
          data |-> << >>]

\* A task outside call(): id is the request_id of the request it built,
\* pushes the push messages it skipped, final the message that ended its
\* loop, err and ret how its call ended.
IdleTask == [pc |-> "idle", id |-> 0, pushes |-> 0, final |-> NoMsg,
             err |-> "none", ret |-> << >>]

NoTasks == [t \in Tasks |-> IdleTask]

\* ShampooClient.__init__: `self._ws = None', `self._request_id = 0'.  opened
\* counts the connections made, live holds the open ones, sent the request
\* ids put on the socket, last the last method called.
NoClient == [ws |-> None, request_id |-> 0, opened |-> 0, live |-> {},
             sent |-> << >>, last |-> "init"]

\* A constructor that fetches page 0 at once.
InitObject_prefetch ==
    /\ count = total
    /\ pages = (0 :> ServerData(0, page_size))
    /\ fetched = (0 :> 1)
    /\ op = "idle"
    /\ args = << >>
    /\ err = "none"
    /\ ret = << >>
    /\ calls = << >>
    /\ consumed = 0

\* PluvoResultSet.__init__ (through Pluvo._get_multiple).
InitObject ==
    /\ count = None
    /\ pages = EmptyMap
    /\ fetched = EmptyMap
    /\ op = "idle"
    /\ args = << >>
    /\ err = "none"
    /\ ret = << >>
    /\ calls = << >>
    /\ consumed = 0

InitServer ==
    /\ page_size \in 1..MaxPageSize
    /\ total \in 0..Min(MaxTotal, MaxPages * page_size)
    /\ negMode \in {"error", "empty", "clamp"}

\* A list call without offset and limit, against a server whose collection
\* does not change.
Init ==
    /\ InitServer
    /\ drift = FALSE
    /\ malformed = FALSE
    /\ token = Token
    /\ method = "GET"
    /\ endpoint = "user/"
    /\ params = [offset |-> None, limit |-> None]
    /\ InitObject
    /\ threads = NoThreads
    /\ shampoo = NoClient
    /\ tasks = NoTasks

\* The caller is done with what the last operation returned (the value, the
\* exception, the iterator) and drops it.  Every operation below starts
\* from such a state, so that its outcome is recorded once per state of the
\* object.
Discard ==
    /\ op # "idle"
    /\ op' = "idle"
    /\ args' = << >>
    /\ err' = "none"
    /\ ret' = << >>
    /\ calls' = << >>
    /\ consumed' = 0
    /\ UNCHANGED <<page_size, total, negMode, drift, malformed, token, method,
                   endpoint,
                   params, count, pages, fetched, threads,
                   shampoo, tasks>>

\* A list call against a server whose reported count may change between
\* responses (and which rejects a negative offset).
InitDrift ==
    /\ InitServer
    /\ negMode = "error"
    /\ drift = TRUE
    /\ malformed = FALSE
    /\ token = Token
    /\ method = "GET"
    /\ endpoint = "user/"
    /\ params = [offset |-> None, limit |-> None]
    /\ InitObject
    /\ threads = NoThreads
    /\ shampoo = NoClient
    /\ tasks = NoTasks

\* A list call with an explicit limit (and offset), as
\* Pluvo.get_users(offset=..., limit=...) builds it.
InitWindow ==
    /\ InitServer
    /\ negMode = "error"
    /\ drift = FALSE
    /\ malformed = FALSE
    /\ token = Token
    /\ method = "GET"
    /\ endpoint = "user/"
    /\ params \in [offset : {None, 1}, limit : 1..MaxTotal]
    /\ InitObject
    /\ threads = NoThreads
    /\ shampoo = NoClient
    /\ tasks = NoTasks

\* The list calls of a client, by method and by authentication:
\* get_users(name=...) and get_users(offset=1, limit=1) are GET requests,
\* get_courses(offset=1, limit=1, title=...) is a POST request, and a result
\* set built without params posts to its endpoint.
InitRequest ==
    /\ InitServer
    /\ negMode = "error"
    /\ drift = FALSE
    /\ malformed = FALSE
    /\ \/ /\ token = Token
          /\ method = "GET"
          /\ endpoint = "user/"
          /\ params = [offset |-> None, limit |-> None, name |-> AName]
       \/ /\ token = None
          /\ method = "GET"
          /\ endpoint = "user/"
          /\ params = [offset |-> 1, limit |-> 1, name |-> None]
       \/ /\ token = Token
          /\ method = "POST"
          /\ endpoint = "courses/"
          /\ params = [offset |-> 1, limit |-> 1, title |-> AName]
       \/ /\ token = None
          /\ method = "POST"
          /\ endpoint = "endpoint"
          /\ params = EmptyMap
    /\ InitObject
    /\ threads = NoThreads
    /\ shampoo = NoClient
    /\ tasks = NoTasks

\* A list call against a server (or a proxy in front of it) that may answer
\* with a JSON body that has 'data' and no 'count'.
InitMalformed ==
    /\ InitServer
    /\ negMode = "error"
    /\ drift = FALSE
    /\ malformed = TRUE
    /\ token = Token
    /\ method = "GET"
    /\ endpoint = "user/"
    /\ params = [offset |-> None, limit |-> None]
    /\ InitObject
    /\ threads = NoThreads
    /\ shampoo = NoClient
    /\ tasks = NoTasks

\* len(resultset)
Length ==
    \E env \in Envs :
        LET s == len(Start, env)
        IN  Ran("len", << >>, Done(s, << s.count >>))

\* resultset[key]
GetIndex ==
    \E key \in Keys, env \in Envs :
        Ran("index", << key >>, getitem_index(Start, key, env))

\* resultset[start:stop]
GetSlice ==
    \E start \in Bounds, stop \in Bounds, env \in Envs :
        Ran("slice", << start, stop >>, getitem_slice(Start, start, stop, env))

\* iter(resultset)
Iterate ==
    \E env \in Envs : Ran("iter", << >>, iter(Start, env))

\* next(it) on the iterator the last iter(resultset) returned: the chain
\* yields its next item, or raises StopIteration at its end.
IterNext ==
    /\ op \in {"iter", "next"}
    /\ err = "none"
    /\ op' = "next"
    /\ calls' = << >>
    /\ IF consumed < Len(ret)
       THEN consumed' = consumed + 1 /\ err' = "none"
       ELSE consumed' = consumed /\ err' = "stop"
    /\ UNCHANGED <<page_size, total, negMode, drift, malformed, token, method,
                   endpoint,
                   params, count, pages, fetched, args, ret, threads,
                   shampoo, tasks>>

\* resultset._get_page(index)
FetchPage ==
    \E index \in PageKeys, env \in Envs :
        LET s == get_page(Start, index, env)
        IN  Ran("get_page", << index >>,
                Done(s, IF s.err = "none" THEN s.pages[index] ELSE << >>))

Next ==
    \/ Length
    \/ GetIndex
    \/ GetSlice
    \/ Iterate
    \/ IterNext
    \/ FetchPage
    \/ Discard

Spec == Init /\ [][Next]_vars

SpecDrift == InitDrift /\ [][Next]_vars

SpecWindow == InitWindow /\ [][Next]_vars

SpecRequest == InitRequest /\ [][Next]_vars

SpecMalformed == InitMalformed /\ [][Next]_vars

\* A list call whose result set several threads share.
InitThreads ==
    /\ InitServer
    /\ negMode = "error"
    /\ drift = FALSE
    /\ malformed = FALSE
    /\ token = Token
    /\ method = "GET"
    /\ endpoint = "user/"
    /\ params = [offset |-> None, limit |-> None]
    /\ InitObject
    /\ threads = NoThreads
    /\ shampoo = NoClient
    /\ tasks = NoTasks

\* Thread t calls _get_page(k) and evaluates `index not in self.pages': a
\* cached page is returned at once, which changes nothing and is no step
\* here; otherwise the thread goes on to the request.  raced records that another thread was inside _get_page for the
\* same index at that moment.
GetPageEnter(t) ==
    \E k \in ThreadKeys \ DOMAIN pages :
        /\ threads[t].pc = "idle"
        /\ threads' = [threads EXCEPT ![t] =
             [@ EXCEPT !.pc = "request", !.index = k,
                       !.raced = @ \/ \E u \in Threads \ {t} :
                                        /\ threads[u].pc # "idle"
                                        /\ threads[u].index = k]]
        /\ UNCHANGED <<page_size, total, negMode, drift, malformed, token,
                       method, endpoint, params, count, pages, fetched, op,
                       args, err, ret, calls, consumed,
                       shampoo, tasks>>

\* Thread t's self.pluvo._request returns a response, or raises and ends
\* the call.
GetPageRequest(t) ==
    \E env \in Envs :
        LET p == RequestParams(Start, threads[t].index)
        IN  /\ threads[t].pc = "request"
            /\ threads' = [threads EXCEPT ![t] =
                 IF Fails(1, p, env)
                 THEN [@ EXCEPT !.pc = "idle", !.index = 0]
                 ELSE [@ EXCEPT !.pc = "store", !.resp = Response(p, env)]]
            /\ UNCHANGED <<page_size, total, negMode, drift, malformed, token,
                           method, endpoint, params, count, pages, fetched,
                           op, args, err, ret, calls, consumed,
                       shampoo, tasks>>

\* A thread that counts its response and does not keep the page.
GetPageStore_forgetful(t) ==
    LET k == threads[t].index
    IN  /\ threads[t].pc = "store"
        /\ fetched' = Bump(fetched, k)
        /\ threads' = [threads EXCEPT ![t] =
             [@ EXCEPT !.pc = "idle", !.index = 0, !.resp = NoResp]]
        /\ UNCHANGED <<page_size, total, negMode, drift, malformed, token,
                       method, endpoint, params, count, pages, op, args, err,
                       ret, calls, consumed,
                       shampoo, tasks>>

\* Thread t stores its response: self.pages[index], self._count when it is
\* still None, and returns the page.
GetPageStore(t) ==
    LET k == threads[t].index
        s == store_response(Start, k, RequestParams(Start, k), threads[t].resp)
    IN  /\ threads[t].pc = "store"
        /\ pages' = s.pages
        /\ count' = s.count
        /\ fetched' = s.fetched
        /\ threads' = [threads EXCEPT ![t] =
             [@ EXCEPT !.pc = "idle", !.index = 0, !.resp = NoResp]]
        /\ UNCHANGED <<page_size, total, negMode, drift, malformed, token,
                       method, endpoint, params, op, args, err, ret, calls,
                       consumed,
                       shampoo, tasks>>

NextThreads ==
    \E t \in Threads :
        \/ GetPageEnter(t)
        \/ GetPageRequest(t)
        \/ GetPageStore(t)

SpecThreads == InitThreads /\ [][NextThreads]_vars

\* ----------------------------------------------------------------- client

\* The empty string, and a client id and secret.
Empty == 0
AClientId == 5
ASecret == 6

\* Python's truth value of a credential: None and '' are false.
Truthy(v) == v # None /\ v # Empty

\* What a caller may pass for client_id, client_secret and token.
ClientIds == {None, Empty, AClientId}
Secrets == {None, Empty, ASecret}
Tokens == {None, Empty, Token}

\* A constructor without its last test, of client_id together with token.
pluvo_init_lenient(client_id, client_secret, tok) ==
    IF ~(Truthy(client_id) \/ Truthy(client_secret) \/ Truthy(tok))
    THEN "misconfigured"
    ELSE IF \/ Truthy(client_id) /\ ~Truthy(client_secret)
            \/ Truthy(client_secret) /\ ~Truthy(client_id)
    THEN "misconfigured"
    ELSE "none"

\* Pluvo.__init__'s three tests: "misconfigured" when it raises
\* PluvoMisconfigured, "none" when the client is built.
pluvo_init(client_id, client_secret, tok) ==
    IF ~(Truthy(client_id) \/ Truthy(client_secret) \/ Truthy(tok))
    THEN "misconfigured"
    ELSE IF \/ Truthy(client_id) /\ ~Truthy(client_secret)
            \/ Truthy(client_secret) /\ ~Truthy(client_id)
    THEN "misconfigured"
    ELSE IF Truthy(client_id) /\ Truthy(tok)
    THEN "misconfigured"
    ELSE "none"

\* The status codes a response may have.
Statuses == {199, 200, 204, 299, 300, 404, 500}

\* The bodies a response may have: text that is no JSON ("invalid"), or a
\* JSON object, list, string, or null.  error is << m >> when the object has
\* an 'error' key with the message m, when the list has the element 'error',
\* when the string contains 'error'; it is << >> otherwise.
Bodies ==
    [kind : {"invalid", "null"}, error : {<< >>}]
    \cup [kind : {"object", "list", "string"}, error : {<< >>, << "e" >>}]

\* Pluvo._request after session.request returned: r.json(), the test of the
\* status code, `'error' in data' and data['error'].  `in' raises TypeError
\* on null; data['error'] raises TypeError on a list and on a string.
handle_response(status, body) ==
    IF body.kind = "invalid"
    THEN [err |-> "pluvo", ret |-> << >>]
    ELSE IF status < 200 \/ status > 299
    THEN IF body.kind = "null"
         THEN [err |-> "type", ret |-> << >>]
         ELSE IF body.error # << >>
         THEN IF body.kind = "object"
              THEN [err |-> "api",
                    ret |-> << [message |-> body.error[1],
                                status_code |-> status, data |-> body] >>]
              ELSE [err |-> "type", ret |-> << >>]
         ELSE [err |-> "pluvo", ret |-> << >>]
    ELSE [err |-> "none", ret |-> << body >>]

\* No client yet: the caller is about to construct one.
InitClient ==
    /\ InitServer
    /\ total = 0
    /\ negMode = "error"
    /\ drift = FALSE
    /\ malformed = FALSE
    /\ token = None
    /\ method = "GET"
    /\ endpoint = "user/"
    /\ params = EmptyMap
    /\ InitObject
    /\ threads = NoThreads
    /\ shampoo = NoClient
    /\ tasks = NoTasks

\* Pluvo(client_id=..., client_secret=..., token=...): err tells whether it
\* raised; a client that was built holds the token.
Construct ==
    \E client_id \in ClientIds, client_secret \in Secrets, tok \in Tokens :
        /\ op \in {"idle", "init"}
        /\ err' = pluvo_init(client_id, client_secret, tok)
        /\ op' = "init"
        /\ args' = << client_id, client_secret, tok >>
        /\ token' = IF err' = "none" THEN tok ELSE None
        /\ ret' = << >>
        /\ UNCHANGED <<page_size, total, negMode, drift, malformed, method,
                       endpoint, params, count, pages, fetched, calls,
                       consumed, threads,
                   shampoo, tasks>>

\* pluvo._request(...) on a client that was built, answered with a status
\* code and a body: ret is the value returned, or what the
\* PluvoAPIException raised carries.
Request ==
    \E status \in Statuses, body \in Bodies :
        LET r == handle_response(status, body)
        IN  /\ \/ op = "init" /\ err = "none"
               \/ op = "request"
            /\ op' = "request"
            /\ args' = << status, body >>
            /\ err' = r.err
            /\ ret' = r.ret
            /\ UNCHANGED <<page_size, total, negMode, drift, malformed,
                           token, method, endpoint, params, count, pages,
                           fetched, calls, consumed, threads,
                   shampoo, tasks>>

NextClient == Construct \/ Request

SpecClient == InitClient /\ [][NextClient]_vars

\* ---------------------------------------------------- ShampooClient.call

\* A ShampooClient just constructed; nothing else is in use.
InitShampoo ==
    /\ InitServer
    /\ page_size = 1
    /\ total = 0
    /\ negMode = "error"
    /\ drift = FALSE
    /\ malformed = FALSE
    /\ token = Token
    /\ method = "GET"
    /\ endpoint = "user/"
    /\ params = EmptyMap
    /\ InitObject
    /\ threads = NoThreads
    /\ shampoo = NoClient
    /\ tasks = NoTasks

\* What the result set and the REST client hold: untouched by the socket.
restVars == <<page_size, total, negMode, drift, malformed, token, method,
              endpoint, params, count, pages, fetched, op, args, err, ret,
              calls, consumed, threads>>

\* The messages the server may send on the socket: a push, a message of
\* another type, or a response to one of the requests sent (or to none:
\* request_id 0), with a status or without, with response_data (named after
\* the request it answers) or without.
Incoming ==
    {[NoMsg EXCEPT !.type = "push"], [NoMsg EXCEPT !.type = "other"]}
    \cup {[type |-> "response", request_id |-> r, status |-> st,
           data |-> IF d THEN << r >> ELSE << >>] :
            r \in {0} \cup {shampoo.sent[i] : i \in 1..Len(shampoo.sent)},
            st \in {None, 200, 299, 300},
            d \in BOOLEAN}

\* A call that takes any response for its own.
call_outcome_any_id(m, current) ==
    IF m.type # "response" THEN [err |-> "pluvo", ret |-> << >>]
    ELSE LET status == IF m.status = None THEN 0 ELSE m.status
         IN  IF status < 200 \/ status > 299
             THEN [err |-> "api", ret |-> << >>]
             ELSE [err |-> "none", ret |-> << m.data >>]

\* call() after its loop ended on the message m, self._request_id being
\* `current': the tests of the type, of the request_id and of the status,
\* and the value returned (<< >> inside ret stands for the default {}).
call_outcome(m, current) ==
    IF m.type # "response" THEN [err |-> "pluvo", ret |-> << >>]
    ELSE IF m.request_id # current THEN [err |-> "pluvo", ret |-> << >>]
    ELSE LET status == IF m.status = None THEN 0 ELSE m.status
         IN  IF status < 200 \/ status > 299
             THEN [err |-> "api", ret |-> << >>]
             ELSE [err |-> "none", ret |-> << m.data >>]

\* `self._request_id += 1' and the request built with it; the task is then
\* at `await self._ws.send'.
BuildRequest(c, t) ==
    /\ shampoo' = [c EXCEPT !.request_id = @ + 1]
    /\ tasks' = [tasks EXCEPT ![t] =
         [IdleTask EXCEPT !.pc = "sending", !.id = c.request_id + 1]]

\* Task t enters call(): _ensure_connected returns at once when there is a
\* connection and the request is built; otherwise the task waits for
\* connect().
CallStart(t) ==
    /\ tasks[t].pc = "idle"
    /\ shampoo.request_id < MaxCalls
    /\ IF shampoo.ws # None
       THEN BuildRequest([shampoo EXCEPT !.last = "call"], t)
       ELSE /\ shampoo' = [shampoo EXCEPT !.last = "call"]
            /\ tasks' = [tasks EXCEPT ![t] =
                 [IdleTask EXCEPT !.pc = "connecting"]]
    /\ UNCHANGED restVars

\* connect() returns to task t: `self._ws = await connect(...)', then the
\* request is built.
Connected(t) ==
    /\ tasks[t].pc = "connecting"
    /\ BuildRequest([shampoo EXCEPT !.opened = @ + 1,
                                    !.ws = shampoo.opened + 1,
                                    !.live = @ \cup {shampoo.opened + 1}], t)
    /\ UNCHANGED restVars

\* `await self._ws.send(json.dumps(request))' completes.
Send(t) ==
    /\ tasks[t].pc = "sending"
    /\ shampoo' = [shampoo EXCEPT !.sent = Append(@, tasks[t].id)]
    /\ tasks' = [tasks EXCEPT ![t].pc = "receiving"]
    /\ UNCHANGED restVars

\* `await self._ws.recv()' hands task t a message: a push is skipped, any
\* other message ends the loop and the call.
Recv(t) ==
    \E m \in Incoming :
        /\ tasks[t].pc = "receiving"
        /\ IF m.type = "push"
           THEN /\ tasks[t].pushes < MaxPush
                /\ tasks' = [tasks EXCEPT ![t].pushes = @ + 1]
           ELSE LET r == call_outcome(m, shampoo.request_id)
                IN  tasks' = [tasks EXCEPT ![t] =
                      [@ EXCEPT !.pc = "idle", !.final = m,
                                !.err = r.err, !.ret = r.ret]]
        /\ UNCHANGED <<shampoo, restVars>>

\* recv() called by task t while another task is waiting in recv(): the
\* websockets connection refuses the second reader (the other outcome, that
\* both wait, is Recv).
RecvBusy(t) ==
    /\ tasks[t].pc = "receiving"
    /\ \E u \in Tasks \ {t} : tasks[u].pc = "receiving"
    /\ tasks' = [tasks EXCEPT ![t] =
         [@ EXCEPT !.pc = "idle", !.err = "concurrency"]]
    /\ UNCHANGED <<shampoo, restVars>>

\* A close() that closes the connection and keeps self._ws.
Close_keep ==
    /\ \A t \in Tasks : tasks[t].pc = "idle"
    /\ shampoo' = [shampoo EXCEPT !.live = @ \ {shampoo.ws},
                                  !.last = "close"]
    /\ UNCHANGED <<tasks, restVars>>

\* close() (and __aexit__), called while no call is in progress: the
\* connection, if there is one, is closed and self._ws is None again.
Close ==
    /\ \A t \in Tasks : tasks[t].pc = "idle"
    /\ shampoo' = IF shampoo.ws # None
                  THEN [shampoo EXCEPT !.live = @ \ {shampoo.ws},
                                       !.ws = None,
                                       !.last = "close"]
                  ELSE [shampoo EXCEPT !.last = "close"]
    /\ UNCHANGED <<tasks, restVars>>

\* One caller at a time.
NextShampoo ==
    \/ CallStart(1)
    \/ Connected(1)
    \/ Send(1)
    \/ Recv(1)
    \/ Close

SpecShampoo == InitShampoo /\ [][NextShampoo]_vars

\* Several tasks call the one client.
NextShampooTasks ==
    \/ \E t \in Tasks :
          \/ CallStart(t)
          \/ Connected(t)
          \/ Send(t)
          \/ Recv(t)
          \/ RecvBusy(t)
    \/ Close

SpecShampooTasks == InitShampoo /\ [][NextShampooTasks]_vars

\* ------------------------------------------------------------------ claims

\* An environment in which no transport call fails.
NoFail == [failAt |-> 0, cnt |-> total]

\* The page index a logged transport call asked for.
PageOf(c) == c.offset \div page_size

\* C1: _get_page(k) on a page already in the cache returns the cached
\* sequence without a transport call, so that over the whole lifetime of the
\* collection the transport is successfully called at most once per page
\* index.
C1_FetchedAtMostOnce ==
    /\ [](\A k \in DOMAIN fetched : fetched[k] <= 1)
    /\ [][(op' = "get_page" /\ args'[1] \in DOMAIN pages)
            => /\ calls' = << >>
               /\ err' = "none"
               /\ ret' = pages[args'[1]]
               /\ pages' = pages]_vars
    /\ [][\A i \in 1..Len(calls') :
            calls'[i].ok => PageOf(calls'[i]) \notin DOMAIN pages]_vars

\* A cached page was asked for again and came from the cache.
C1_Witness ==
    /\ op = "get_page"
    /\ err = "none"
    /\ calls = << >>
    /\ args[1] \in DOMAIN fetched
    /\ fetched[args[1]] = 1
    /\ ret = pages[args[1]]

\* C2: length() returns total_count; a length() call on a collection whose
\* count is unknown issues exactly one fetch (offset 0, limit page_size),
\* a call that returns leaves the count known, and every length() call on a
\* collection whose count is known issues no fetch.
C2_LengthOneFetch ==
    [][op' = "len"
        => /\ IF count = None
              THEN /\ Len(calls') = 1
                   /\ calls'[1].offset = 0
                   /\ calls'[1].limit = page_size
              ELSE calls' = << >>
           /\ err' = "none" => /\ count' # None
                               /\ count' = total
                               /\ ret' = << count' >>]_vars

\* length() was called on a collection that knew its count: no fetch.
C2_Witness ==
    /\ op = "len"
    /\ err = "none"
    /\ calls = << >>
    /\ ret = << total >>
    /\ total > 0

\* C3: for i in [0, length()), get_index(i) returns the item at absolute
\* position i of the server's collection, whether or not its page was cached
\* before, and it equals get_slice(i, i + 1)[0].
C3_IndexReturnsItem ==
    /\ (op = "index" /\ err # "transport" /\ args[1] \in 0..(count - 1))
          => (err = "none" /\ ret = << Item(args[1]) >>)
    /\ (op = "slice" /\ err # "transport" /\ args[1] # << >> /\ args[2] # << >>
          /\ args[1][1] \in 0..(total - 1) /\ args[2][1] = args[1][1] + 1)
          => (err = "none" /\ ret = << Item(args[1][1]) >>)
    /\ \A i \in 0..(total - 1) :
          LET x == getitem_index(Start, i, NoFail)
              y == getitem_slice(Start, << i >>, << i + 1 >>, NoFail)
          IN  /\ x.st.err = "none"
              /\ y.st.err = "none"
              /\ x.ret = << y.ret[1] >>

\* get_index(i) fetched the page of i, a page other than page 0.
C3_Witness ==
    /\ op = "index"
    /\ err = "none"
    /\ args[1] >= page_size
    /\ args[1] < count
    /\ Len(calls) > 0
    /\ calls[Len(calls)].offset = (args[1] \div page_size) * page_size
    /\ ret = << Item(args[1]) >>

\* The canonical value of a key on a collection of length n.
Canon(i, n) == IF i < 0 THEN n + i ELSE i

\* The canonical value of a slice bound, dflt when it is omitted.
CanonBound(b, n, dflt) == Canon(IF b = << >> THEN dflt ELSE b[1], n)

\* The number of pages n items fill.
PagesNeeded(n) ==
    CHOOSE k \in 0..n : k * page_size >= n /\ (k - 1) * page_size < n

Max(a, b) == IF a > b THEN a ELSE b

\* C4: get_index(i) fails with an out-of-range error, and returns no item,
\* for every i whose canonical index is >= length() or < 0 (stated for the
\* operations in which no transport call raised).
C4_OutOfRangeRaises ==
    (/\ op = "index"
     /\ count # None
     /\ \A i \in 1..Len(calls) : calls[i].ok
     /\ \/ Canon(args[1], count) >= count
        \/ Canon(args[1], count) < 0)
    => (err = "index" /\ ret = << >>)

\* C5: for bounds that canonicalize to 0 <= start <= stop <= length(),
\* get_slice(start, stop) returns exactly the items at positions
\* start .. stop-1, in order.
C5_SliceReturnsRange ==
    (op = "slice" /\ err # "transport")
    => LET s == CanonBound(args[1], total, 0)
           e == CanonBound(args[2], total, total)
       IN  (0 <= s /\ s <= e /\ e <= total)
           => (err = "none" /\ ret = Items(s, e))

\* get_slice(1, 3) over the pages [1,2], [3,4] returned [2,3].
C5_Witness ==
    /\ op = "slice"
    /\ page_size = 2
    /\ total = 4
    /\ args = << << 1 >>, << 3 >> >>
    /\ err = "none"
    /\ ret = << 2, 3 >>
    /\ Len(calls) = 2

\* iterate() on a collection with an empty cache returned the chain of all
\* items, in order, after exactly n fetches, of the pages 0 .. n-1 in order.
IterFreshFetches(n) ==
    (op' = "iter" /\ pages = EmptyMap /\ err' = "none")
    => /\ ret' = Items(0, total)
       /\ Len(calls') = n
       /\ \A i \in 1..Len(calls') :
            calls'[i].ok /\ calls'[i].offset = (i - 1) * page_size

\* C6 as stated: fully consuming iterate() on a fresh collection yields all
\* length() items in order and issues exactly ceil(length() / page_size)
\* fetches, one per page in ascending order.
C6_IterFetchesCeil == [][IterFreshFetches(PagesNeeded(total))]_vars

\* C6 as amended: the same with max(1, ceil(length() / page_size)) fetches:
\* the fetch of page 0 that tells the length is issued for an empty
\* collection too.  The chain handed back is consumed item by item and ends
\* after its last item.
C6_IterFetchesAtLeastOne ==
    /\ [][IterFreshFetches(Max(1, PagesNeeded(total)))]_vars
    /\ []((op = "next" /\ err = "stop") => consumed = Len(ret))
    /\ []((op = "next" /\ err = "none") => consumed \in 1..Len(ret))

\* iterate() on a fresh collection of 4 items, page_size 2: [1,2,3,4] after
\* the fetches at offsets 0 and 2.
C6_Witness ==
    /\ op = "iter"
    /\ page_size = 2
    /\ ret = << 1, 2, 3, 4 >>
    /\ Len(calls) = 2
    /\ calls[1].offset = 0
    /\ calls[2].offset = 2
    /\ DOMAIN fetched = {0, 1}

\* C7: iterate() is lazy per page: while only items of pages < k have been
\* consumed, no fetch for page k >= 1 has been issued by the iteration.
C7_IterLazyPerPage ==
    (op = "iter" /\ err = "none")
    => \A i \in 1..Len(calls) :
          PageOf(calls[i]) >= 1 => consumed > PageOf(calls[i]) * page_size

\* The length of the window the caller asked for.
WindowLen ==
    Min(params.limit,
        Max(0, total - (IF params.offset = None THEN 0 ELSE params.offset)))

\* C8: with an explicit limit (and offset) the collection is restricted to
\* that window: iteration yields min(limit, total - offset) items and
\* length() reports the same number.
C8_WindowRestricts ==
    (params.limit # None /\ err = "none")
    => /\ op = "iter" => Len(ret) = WindowLen
       /\ op = "len" => ret = << WindowLen >>

\* C9: get_slice fetches only pages it needs: every page index it fetches
\* lies in [0, ceil(length() / page_size)) and holds a position p with
\* start <= p < stop (stated for given, non-negative bounds, which need no
\* length discovery, on a non-empty collection).
C9_SliceFetchesNeededPages ==
    (/\ op = "slice"
     /\ total > 0
     /\ args[1] # << >> /\ args[2] # << >>
     /\ args[1][1] >= 0 /\ args[2][1] >= 0)
    => \A i \in 1..Len(calls) :
          LET k == PageOf(calls[i])
          IN  /\ k \in 0..(PagesNeeded(total) - 1)
              /\ \E q \in (k * page_size)..((k + 1) * page_size - 1) :
                    args[1][1] <= q /\ q < args[2][1]

\* C10: total_count is unknown until the first successful page fetch and,
\* once set, keeps its value, whatever count later responses report.
C10_CountSetOnce ==
    /\ []((count = None) <=> (DOMAIN fetched = {}))
    /\ [][count # None => count' = count]_vars

\* A page was fetched whose response reported another count than the one
\* the collection holds.
C10_Witness ==
    /\ count # None
    /\ \E i \in 1..Len(calls) : calls[i].ok /\ calls[i].count # count

\* C11: page_cache only grows: a page, once stored, stays in the cache with
\* the same items in every later state; no operation removes, replaces or
\* alters a cached page.
C11_CacheOnlyGrows ==
    [][\A k \in DOMAIN pages : k \in DOMAIN pages' /\ pages'[k] = pages[k]]_vars

\* A slice over several pages was assembled from pages that were cached
\* before it, and the cached pages are the server's pages still.
C11_Witness ==
    /\ op = "slice"
    /\ err = "none"
    /\ calls = << >>
    /\ Len(ret) > page_size
    /\ \A k \in DOMAIN pages : pages[k] = ServerData(k * page_size, page_size)

\* C12 as stated: every cached page has at most page_size items and only the
\* page with index ceil(total_count / page_size) - 1 may have fewer.
C12_OnlyLastPageShort ==
    \A k \in DOMAIN pages :
        /\ Len(pages[k]) <= page_size
        /\ Len(pages[k]) < page_size => k = PagesNeeded(total) - 1

\* C12 as amended: every cached page has at most page_size items, and every
\* cached page before the last one (index in [0, ceil(total_count /
\* page_size) - 1)) has exactly page_size; the last page and the cached pages
\* outside the collection (page 0 of an empty collection, a page past the
\* end, a page with a negative index) may have fewer.
C12_InnerPagesFull ==
    \A k \in DOMAIN pages :
        /\ Len(pages[k]) <= page_size
        /\ k \in 0..(PagesNeeded(total) - 2) => Len(pages[k]) = page_size

\* A full first page, a shorter last page and an empty page past the end
\* are cached.
C12_Witness ==
    /\ page_size = 2
    /\ total = 3
    /\ {0, 1, 2} \subseteq DOMAIN pages
    /\ Len(pages[0]) = 2
    /\ Len(pages[1]) = 1
    /\ Len(pages[2]) = 0

\* C13: negative indices count from the end: on a non-empty collection, for
\* every i in [-length(), -1], get_index(i) returns the item at position
\* length() + i, the item get_index(length() + i) returns; get_index(-1) is
\* get_index(length() - 1).
C13_NegativeIndexFromEnd ==
    /\ (op = "index" /\ err # "transport" /\ count # None
          /\ args[1] \in (0 - count)..(0 - 1))
          => (err = "none" /\ ret = << Item(count + args[1]) >>)
    /\ \A i \in (0 - total)..(0 - 1) :
          LET x == getitem_index(Start, i, NoFail)
              y == getitem_index(Start, total + i, NoFail)
          IN  /\ x.st.err = "none"
              /\ y.st.err = "none"
              /\ x.ret = y.ret

\* get_index(-1) returned the last item of a collection of several pages.
C13_Witness ==
    /\ op = "index"
    /\ err = "none"
    /\ args = << 0 - 1 >>
    /\ total > page_size
    /\ ret = << Item(total - 1) >>

\* C14: slice boundary laws: get_slice(a, a) returns the empty sequence for
\* any integer a, and get_slice(0, length()) returns what fully consuming
\* iterate() returns, for every length (stated for the operations in which
\* no request with a valid offset, >= 0, failed).
C14_SliceBoundaryLaws ==
    /\ (/\ op = "slice"
        /\ args[1] # << >>
        /\ args[2] = args[1]
        /\ \A i \in 1..Len(calls) : calls[i].offset >= 0 => calls[i].ok)
       => (err = "none" /\ ret = << >>)
    /\ LET x == getitem_slice(Start, << 0 >>, << total >>, NoFail)
           y == iter(Start, NoFail)
       IN  /\ x.st.err = "none"
           /\ y.st.err = "none"
           /\ x.ret = y.ret

\* C15: get_slice(start, stop) whose canonical start is greater than its
\* canonical stop returns the empty sequence and raises no error, fetching
\* no page other than page 0 for the discovery of the length.
C15_ReversedSliceEmpty ==
    (/\ op = "slice"
     /\ CanonBound(args[1], total, 0) > CanonBound(args[2], total, total))
    => /\ ret = << >>
       /\ Len(calls) <= 1
       /\ \A i \in 1..Len(calls) : calls[i].offset = 0 /\ calls[i].limit = page_size
       /\ calls # << >> =>
              (args[1] = << >> \/ args[2] = << >> \/ args[1][1] < 0 \/ args[2][1] < 0)
       /\ IF \E i \in 1..Len(calls) : ~calls[i].ok
          THEN err = "transport"
          ELSE err = "none"

C15_Witness ==
    /\ op = "slice"
    /\ err = "none"
    /\ args = << << 3 >>, << 0 - 1 >> >>
    /\ total = 3
    /\ page_size = 2
    /\ ret = << >>
    /\ Len(calls) = 1

\* Every page iterate() walks is cached and the length is known.
AllPagesCached ==
    /\ count # None
    /\ \A k \in 0..(PagesNeeded(total) - 1) : k \in DOMAIN pages

\* iterate(), called in any state of the collection.
IterRestart ==
    (op' = "iter")
    => /\ err' \in {"none", "transport"}
       /\ err' = "none" <=> \A i \in 1..Len(calls') : calls'[i].ok
       /\ err' = "none" => (ret' = Items(0, total) /\ consumed' = 0)
       /\ \A i \in 1..Len(calls') :
            /\ calls'[i].offset = PageOf(calls'[i]) * page_size
            /\ PageOf(calls'[i]) \notin DOMAIN pages
            /\ \A j \in 1..Len(calls') : calls'[j].offset = calls'[i].offset => j = i
       /\ AllPagesCached => calls' = << >>

\* C16: iterate() is restartable: called again after any earlier operations
\* it yields the same full sequence from position 0, issues a fetch only for
\* pages not yet in page_cache, and issues no fetch once a full iteration
\* has completed (which leaves every page cached).
C16_IterRestartable ==
    /\ [][IterRestart]_vars
    /\ []((op \in {"iter", "next"} /\ err \in {"none", "stop"}) => AllPagesCached)

\* A second iterate() over 4 items in pages of 2 returned all of them
\* without a fetch.
C16_Witness ==
    /\ op = "iter"
    /\ err = "none"
    /\ calls = << >>
    /\ page_size = 2
    /\ ret = << 1, 2, 3, 4 >>
    /\ fetched = (0 :> 1) @@ (1 :> 1)

\* The operations of a collection that may issue a transport call.
Operations == {"len", "index", "slice", "iter", "get_page"}

\* A step that changes total_count or page_cache, or that issues a
\* transport call, is an operation that issued a transport call.
OnlyOperationsFetch ==
    (count' # count \/ pages' # pages \/ fetched' # fetched \/ calls' # << >>)
    => (op' \in Operations /\ calls' # << >>)

\* C17: constructing a collection performs no transport call and leaves
\* total_count unknown and page_cache empty; the first transport call
\* happens only at the first length(), get_index, get_slice or iterate
\* operation.
C17_ConstructionFetchesNothing ==
    /\ (count = None /\ pages = EmptyMap /\ fetched = EmptyMap /\ calls = << >>)
    /\ [][OnlyOperationsFetch]_vars

\* The first operation on a collection, a length(), issued the first
\* transport call.
C17_Witness ==
    /\ op = "len"
    /\ err = "none"
    /\ Len(calls) = 1
    /\ calls[1].offset = 0
    /\ total > 0
    /\ fetched = (0 :> 1)
    /\ count = total

\* C19: when the transport raises during a page fetch, the operation in
\* progress ends with that error and returns no partial result, and the
\* failing page is requested exactly once within the operation: the failed
\* request is the last one, and no other request has its offset.
C19_FailureAbortsNoRetry ==
    /\ (err = "transport") <=> (\E i \in 1..Len(calls) : ~calls[i].ok)
    /\ \A i \in 1..Len(calls) :
         ~calls[i].ok
         => /\ i = Len(calls)
            /\ ret = << >>
            /\ op \in Operations
            /\ \A j \in 1..Len(calls) : calls[j].offset = calls[i].offset => j = i
            /\ PageOf(calls[i]) \notin DOMAIN pages

\* A slice over two pages whose second request raised: the first page is
\* cached, nothing is returned.
C19_Witness ==
    /\ op = "slice"
    /\ err = "transport"
    /\ ret = << >>
    /\ Len(calls) = 2
    /\ calls[1].ok
    /\ ~calls[2].ok
    /\ calls[2].offset > 0
    /\ 0 \in DOMAIN pages

\* The parameters of the request for page k: query_params with offset and
\* limit replaced.
PageParams(k) ==
    [x \in DOMAIN params \cup {"offset", "limit"} |->
        IF x = "offset" THEN k * page_size
        ELSE IF x = "limit" THEN page_size
        ELSE params[x]]

\* The logged call c is a request for page k to the collection's endpoint
\* with the collection's method, carrying PageParams(k) in the query string
\* (next to the token of the authentication) for GET and in the body for
\* POST.
RequestShape(c, k) ==
    /\ c.offset = k * page_size
    /\ c.limit = page_size
    /\ c.req.verb = method
    /\ c.req.endpoint = endpoint
    /\ IF method = "POST"
       THEN /\ c.req.body = << PageParams(k) >>
            /\ DOMAIN c.req.query \subseteq {"token"}
       ELSE /\ c.req.body = << >>
            /\ [x \in DOMAIN c.req.query \ {"token"} |-> c.req.query[x]]
                 = PageParams(k)

\* C18: every fetch of an uncached page index k issues exactly one transport
\* request to the collection's endpoint, whose parameters are query_params
\* overridden with offset = k * page_size and limit = page_size, sent as a
\* query string when method is GET and as the submitted body when method is
\* POST; every request an operation issued has that shape.
C18_PageRequestShape ==
    /\ \A k \in PageKeys \ DOMAIN pages : \A env \in Envs :
         LET s == get_page(Start, k, env)
         IN  Len(s.calls) = 1 /\ RequestShape(s.calls[1], k)
    /\ \A k \in PageKeys \cap DOMAIN pages :
         get_page(Start, k, NoFail).calls = << >>
    /\ \A i \in 1..Len(calls) : RequestShape(calls[i], PageOf(calls[i]))

\* get_courses(offset=1, limit=1, title=...) fetched two pages: the second
\* POST carries the title and the offset and limit of page 1 in its body.
C18_Witness ==
    /\ method = "POST"
    /\ page_size = 2
    /\ params = [offset |-> 1, limit |-> 1, title |-> AName]
    /\ Len(calls) = 2
    /\ calls[2].ok
    /\ calls[2].req.verb = "POST"
    /\ calls[2].req.body = << [offset |-> 2, limit |-> 2, title |-> AName] >>
    /\ calls[2].req.query = [token |-> Token]

\* C20: query_params is never modified after construction: no length,
\* get_index, get_slice or iterate operation, with GET or POST and with
\* token or client authentication, adds, removes or changes a key of it.
C20_ParamsNeverModified == [][params' = params]_vars

\* get_users(name=...) with a token fetched a page: the request carried the
\* offset, the limit and the token, and params holds what the caller gave.
C20_Witness ==
    /\ method = "GET"
    /\ token = Token
    /\ op = "index"
    /\ Len(calls) = 1
    /\ calls[1].ok
    /\ calls[1].req.query =
         [offset |-> page_size, limit |-> page_size, name |-> AName,
          token |-> Token]
    /\ params = [offset |-> None, limit |-> None, name |-> AName]

\* The pages get_slice(s, e) reads for 0 <= s and 0 <= e: none when s > e,
\* else the pages s div page_size .. (e div page_size) - 1, and the page
\* e div page_size when e mod page_size > 0 or s and e fall in one page.
SlicePages(s, e) ==
    LET a == s \div page_size
        b == e \div page_size
    IN  IF s > e THEN {}
        ELSE IF a = b THEN {a}
        ELSE (a .. (b - 1)) \cup (IF e % page_size > 0 THEN {b} ELSE {})

\* The calls of the log cs ask for exactly the pages of S that `cached' does
\* not hold, each once, in ascending order, with no call for page 0 unless
\* it is one of them.
FetchesExactly(cs, S, cached) ==
    /\ {PageOf(cs[i]) : i \in 1..Len(cs)} = S \ cached
    /\ \A i \in 1..Len(cs) : cs[i].offset = PageOf(cs[i]) * page_size
    /\ \A i, j \in 1..Len(cs) : i < j => cs[i].offset < cs[j].offset

\* C26: get_slice(start, stop) with both bounds given and non-negative
\* performs no bounds check and no length discovery: it fetches (if
\* uncached) exactly the pages start div page_size up to
\* (stop div page_size) - 1, plus page stop div page_size only when
\* stop mod page_size > 0 or both bounds fall in one page, and leaves
\* total_count unknown unless one of those fetches sets it.  The first
\* conjunct runs the slice from every collection state between operations
\* (every reachable collection appears there); the second reads the log of
\* the slice that just ran.
C26_SliceNoLengthDiscovery ==
    /\ op = "idle" => \A s, e \in 0..(total + MaxOver) :
         LET r == getitem_slice(Start, << s >>, << e >>, NoFail)
         IN  /\ r.st.err = "none"
             /\ FetchesExactly(r.st.calls, SlicePages(s, e), DOMAIN pages)
             /\ r.st.count = IF count = None /\ r.st.calls # << >>
                             THEN r.st.calls[1].count
                             ELSE count
    /\ (/\ op = "slice"
        /\ args[1] # << >> /\ args[2] # << >>
        /\ args[1][1] >= 0 /\ args[2][1] >= 0)
       => /\ err \in {"none", "transport"}
          /\ {PageOf(calls[i]) : i \in 1..Len(calls)}
               \subseteq SlicePages(args[1][1], args[2][1])
          /\ count = None => \A i \in 1..Len(calls) : ~calls[i].ok

\* resultset[2:4] on a fresh collection of 4 items in pages of 2 fetched
\* page 1 alone; page 0 was never asked for.
C26_Witness ==
    /\ op = "slice"
    /\ args = << << 2 >>, << 4 >> >>
    /\ page_size = 2
    /\ total = 4
    /\ err = "none"
    /\ ret = << 3, 4 >>
    /\ Len(calls) = 1
    /\ calls[1].offset = 2
    /\ DOMAIN pages = {1}

\* The collection was fresh when the last operation started: every cached
\* page was fetched by that operation.
WasFresh ==
    /\ DOMAIN pages = {PageOf(calls[i]) : i \in {j \in 1..Len(calls) : calls[j].ok}}
    /\ \A k \in DOMAIN fetched : fetched[k] = 1
    /\ count = None <=> pages = EmptyMap

\* C27: on a fresh collection get_index(i) with i >= 0 fetches page 0 first,
\* for the bounds check, and then, only if i < length() and
\* i div page_size # 0, the page i div page_size: at most two fetches in
\* that order, and exactly one fetch (page 0) when i >= length().
C27_IndexFetchesPageZeroFirst ==
    (op = "index" /\ args[1] >= 0 /\ WasFresh)
    => /\ Len(calls) \in {1, 2}
       /\ calls[1].offset = 0
       /\ Len(calls) = 2 <=> /\ calls[1].ok
                             /\ args[1] < total
                             /\ args[1] \div page_size # 0
       /\ Len(calls) = 2 => calls[2].offset = (args[1] \div page_size) * page_size
       /\ (calls[1].ok /\ args[1] >= total) => (Len(calls) = 1 /\ err = "index")

\* get_index(3) on a fresh collection of 4 items in pages of 2: the fetch of
\* page 0, then the fetch of page 1.
C27_Witness ==
    /\ op = "index"
    /\ args = << 3 >>
    /\ page_size = 2
    /\ total = 4
    /\ err = "none"
    /\ ret = << 4 >>
    /\ Len(calls) = 2
    /\ calls[1].offset = 0
    /\ calls[2].offset = 2
    /\ fetched = (0 :> 1) @@ (1 :> 1)

\* C28: a page fetch that fails because the transport raises leaves the
\* collection unchanged: page_cache and total_count are as before the failed
\* fetch and the failing page index is not cached, so that a later fetch of
\* that page issues a new transport call and can succeed.  The first
\* conjunct runs the failing fetch and the retry from every collection state
\* between operations; the second reads the state a failed fetch left.
C28_FailedFetchChangesNothing ==
    /\ op = "idle" => \A k \in PageKeys \ DOMAIN pages : \A env \in Envs :
         LET s == get_page(Start, k, env)
             t == get_page([s EXCEPT !.err = "none", !.calls = << >>], k, NoFail)
         IN  s.err = "transport"
             => /\ s.pages = pages
                /\ s.count = count
                /\ s.fetched = fetched
                /\ s.params = params
                /\ Len(t.calls) = 1
                /\ t.calls[1].ok
                /\ t.calls[1].offset = k * page_size
                /\ t.err = "none"
                /\ t.pages[k] = ServerData(k * page_size, page_size)
    /\ (op = "get_page" /\ err = "transport")
       => (args[1] \notin DOMAIN pages /\ args[1] \notin DOMAIN fetched)

\* _get_page(1) failed on a collection that held page 0: page 0 and the
\* count are still there, page 1 is not cached.
C28_Witness ==
    /\ op = "get_page"
    /\ args = << 1 >>
    /\ err = "transport"
    /\ Len(calls) = 1
    /\ ~calls[1].ok
    /\ DOMAIN pages = {0}
    /\ pages[0] = ServerData(0, page_size)
    /\ count = total
    /\ total > page_size

\* C29: in every reachable state of a collection, also after a fetch raised
\* or after a response arrived without its count field, a non-empty
\* page_cache implies that total_count is known, and length() never returns
\* an unknown value (nor fails for want of one) once any page is cached.
C29_CachedImpliesCountKnown ==
    /\ pages # EmptyMap => count # None
    /\ (op = "len" /\ pages # EmptyMap /\ err # "transport")
       => (err = "none" /\ ret # << None >>)

\* C21: under strictly sequential use, where no thread enters fetch_page(k)
\* while another is inside it for the same uncached page k, the transport is
\* called at most once per page; under concurrent use the guarantee is
\* lost: the state of C21_Witness, in which two threads both saw page k
\* absent and both fetched it, is reachable.
C21_SequentialFetchesOnce ==
    (\A t \in Threads : ~threads[t].raced)
    => \A k \in DOMAIN fetched : fetched[k] <= 1

\* Two threads fetched the same page: one entered while the other was
\* inside, both saw the page absent, and the transport was called twice for
\* it.
C21_Witness ==
    /\ \E t \in Threads : threads[t].raced
    /\ \A t \in Threads : threads[t].pc = "idle"
    /\ 1 \in DOMAIN fetched
    /\ fetched[1] = 2
    /\ pages[1] = ServerData(page_size, page_size)

\* C22: constructing the client succeeds exactly when either client_id and
\* client_secret are both truthy and token is falsy, or token is truthy and
\* client_id and client_secret are both falsy; every other combination
\* raises PluvoMisconfigured.
C22_ConstructionValidatesCredentials ==
    op = "init"
    => /\ err \in {"none", "misconfigured"}
       /\ err = "none"
          <=> \/ Truthy(args[1]) /\ Truthy(args[2]) /\ ~Truthy(args[3])
              \/ Truthy(args[3]) /\ ~Truthy(args[1]) /\ ~Truthy(args[2])
       /\ err = "none" => token = args[3]

\* Pluvo(client_id, client_secret, token) with all three given raised
\* PluvoMisconfigured.
C22_Witness ==
    /\ op = "init"
    /\ args = << AClientId, ASecret, Token >>
    /\ err = "misconfigured"

\* C23: Pluvo._request returns the decoded JSON body only when the body is
\* valid JSON and the status code is in 200..299; a body that is not valid
\* JSON raises PluvoException for any status code, a status outside 200..299
\* with an 'error' field raises PluvoAPIException carrying that message and
\* status code, and a status outside 200..299 without an 'error' field
\* raises PluvoException.
C23_RequestOutcome ==
    op = "request"
    => LET status == args[1]
           body == args[2]
           ok == status >= 200 /\ status <= 299
           field == body.kind = "object" /\ body.error # << >>
       IN  /\ err = "none" <=> (body.kind # "invalid" /\ ok)
           /\ err = "none" => ret = << body >>
           /\ body.kind = "invalid" => err = "pluvo"
           /\ (body.kind # "invalid" /\ ~ok /\ field)
              => /\ err = "api"
                 /\ ret[1].message = body.error[1]
                 /\ ret[1].status_code = status
           /\ (body.kind # "invalid" /\ ~ok /\ ~field) => err = "pluvo"

\* Task t's last call() returned normally.
Returned(t) ==
    /\ tasks[t].pc = "idle"
    /\ tasks[t].final.type = "response"
    /\ tasks[t].err = "none"

\* C30: request/response correlation holds under every interleaving: each
\* call() uses a request_id distinct from every other call's on the same
\* client, and a call() that returns normally returns the response_data of
\* the response whose request_id is the id that this very call sent, also
\* when two calls on the same client are in flight at the same time.
C30_CorrelationUnderInterleaving ==
    /\ \A i, j \in 1..Len(shampoo.sent) :
         shampoo.sent[i] = shampoo.sent[j] => i = j
    /\ \A t, u \in Tasks :
         (t # u /\ tasks[t].pc # "idle" /\ tasks[u].pc # "idle"
          /\ tasks[t].id > 0)
         => tasks[t].id # tasks[u].id
    /\ \A t \in Tasks :
         Returned(t) => /\ tasks[t].final.request_id = tasks[t].id
                        /\ tasks[t].ret = << tasks[t].final.data >>

\* The client holds exactly the connection self._ws names, or none.
HoldsOneConnection ==
    shampoo.live = IF shampoo.ws = None THEN {} ELSE {shampoo.ws}

\* A step of the client's life: a connection is opened only by a call()
\* that found none, a call() that finds one reuses it, a connection is given
\* up only by close(), after which there is none, and a close() without a
\* connection changes nothing.
LifecycleStep ==
    /\ shampoo'.opened # shampoo.opened
       => /\ shampoo.ws = None
          /\ shampoo'.opened = shampoo.opened + 1
          /\ shampoo'.ws = shampoo'.opened
          /\ \E t \in Tasks : /\ tasks[t].pc = "connecting"
                              /\ tasks'[t].pc = "sending"
    /\ \A t \in Tasks :
         /\ (tasks[t].pc = "idle" /\ tasks'[t].pc # "idle")
            => IF shampoo.ws = None
               THEN tasks'[t].pc = "connecting"
               ELSE /\ tasks'[t].pc = "sending"
                    /\ shampoo'.ws = shampoo.ws
                    /\ shampoo'.opened = shampoo.opened
         /\ (tasks[t].pc = "connecting" /\ tasks'[t].pc # "connecting")
            => shampoo'.opened = shampoo.opened + 1
    /\ (shampoo.ws # None /\ shampoo'.ws # shampoo.ws)
       => /\ shampoo'.ws = None
          /\ shampoo'.last = "close"
          /\ shampoo'.live = {}
    /\ (shampoo'.last = "close" /\ tasks' = tasks)
       => /\ shampoo'.ws = None
          /\ shampoo'.opened = shampoo.opened
          /\ shampoo'.request_id = shampoo.request_id
          /\ shampoo.ws = None => shampoo'.live = shampoo.live

\* C24: ShampooClient connection lifecycle: no connection exists after
\* construction; the first call() opens exactly one connection; every later
\* call() reuses it without reconnecting; the connection stays open until
\* close() is invoked, after which the client holds no connection, a further
\* close() is a no-op, and the next call() opens a new connection.
C24_ConnectionLifecycle ==
    /\ (shampoo.ws = None /\ shampoo.opened = 0 /\ shampoo.live = {})
    /\ []HoldsOneConnection
    /\ [][LifecycleStep]_vars

\* A call(), a close() and a second call(): the second connection is open,
\* the first is closed.
C24_Witness ==
    /\ shampoo.opened = 2
    /\ shampoo.ws = 2
    /\ shampoo.live = {2}
    /\ shampoo.request_id = 2
    /\ tasks[1].pc = "receiving"

\* C25: call() sends one request carrying a request_id one greater than the
\* previous call's, then reads messages until the first non-push message:
\* the push messages before it are skipped, a message of any other type
\* than 'response' raises PluvoException, a response whose request_id
\* differs from the sent one raises PluvoException, a response with a status
\* outside 200..299 (or missing) raises PluvoAPIException, and otherwise
\* call() returns that response's response_data.
C25_CallProtocol ==
    /\ \A i \in 1..Len(shampoo.sent) : shampoo.sent[i] = i
    /\ \A t \in Tasks :
         LET c == tasks[t]
             m == c.final
         IN  /\ c.pc \in {"connecting"} => Len(shampoo.sent) = shampoo.request_id
             /\ c.pc = "sending"
                => /\ c.id = shampoo.request_id
                   /\ Len(shampoo.sent) = c.id - 1
             /\ c.pc = "receiving"
                => /\ m = NoMsg
                   /\ Len(shampoo.sent) = c.id
                   /\ shampoo.sent[c.id] = c.id
             /\ (c.pc = "idle" /\ c.id > 0)
                => /\ Len(shampoo.sent) = shampoo.request_id
                   /\ m.type \notin {"none", "push"}
                   /\ c.pushes \in 0..MaxPush
                   /\ IF m.type # "response" THEN c.err = "pluvo"
                      ELSE IF m.request_id # c.id THEN c.err = "pluvo"
                      ELSE IF m.status = None \/ m.status < 200 \/ m.status > 299
                      THEN c.err = "api"
                      ELSE c.err = "none" /\ c.ret = << m.data >>

\* The second call() skipped a push and returned the response_data of the
\* response to request 2.
C25_Witness ==
    /\ tasks[1].pc = "idle"
    /\ tasks[1].id = 2
    /\ tasks[1].pushes = 1
    /\ tasks[1].err = "none"
    /\ tasks[1].final.request_id = 2
    /\ tasks[1].ret = << << 2 >> >>
    /\ shampoo.sent = << 1, 2 >>

====
